---- MODULE Spec2Model ----
(***************************************************************************)
(* Model of the two Streamlit front-ends of the WCAG accessibility tester: *)
(*   accessibility_tester.py   (file mode: run_node_axe, render_html)      *)
(*   streamlit_a11y_app.py     (JSON mode: run_accessibility_check, main)  *)
(* Text is modelled as sequences: URLs as sequences of characters, HTML    *)
(* documents and messages as sequences of text chunks.                     *)
(***************************************************************************)
EXTENDS Integers, Sequences, FiniteSets, TLC

VARIABLES
    app,                \* which front-end script is deployed: "file" | "json"
    pc,                 \* position of the script within the current render pass
    url,                \* st.text_input value
    selected_standards, \* list built from the four checkboxes (file mode)
    keyboard_testing,   \* checkbox (file mode)
    button,             \* value returned by st.button in the current pass
    msgs,               \* st.warning / st.info / st.error / st.success shown in the pass
    run_test,           \* st.session_state.run_test: "unset" | "True" | "False"
    test_url,           \* st.session_state.test_url
    files,              \* temporary files that exist on disk
    out_file,           \* temporary file of the run_node_axe call in progress (0: none)
    cmd,                \* argv of the current subprocess.run call
    proc,               \* external auditor process
    elapsed,            \* time waited so far by the subprocess.run(timeout=60) in progress
    outcome,            \* raw outcome of the external process in the last invoker call
    result,             \* value returned by the last invoker call
    desktop_html,       \* file mode
    mobile_html,        \* file mode
    viewer,             \* documents given to st.components.v1.html in the pass
    exception,          \* exception that escaped the script in the pass
    runs,               \* invoker calls made in the current pass
    arg,                \* input of the pure function under test
    ret,                \* its output
    passes              \* number of applications made

appVars == <<app, pc, url, selected_standards, keyboard_testing, button, msgs,
             run_test, test_url, files, out_file, cmd, proc, elapsed,
             outcome, result, desktop_html, mobile_html, viewer, exception, runs>>
pureVars == <<arg, ret, passes>>
vars == <<appVars, pureVars>>

(***************************************************************************)
(* Bounds                                                                  *)
(***************************************************************************)
MaxPad == 2
MaxDocLen == 3
MaxFiles == 3

(***************************************************************************)
(* Text helpers                                                            *)
(***************************************************************************)
Whitespace == {" ", "\t", "\n", "\n    "}

RECURSIVE lstrip(_)
lstrip(s) == IF s # <<>> /\ Head(s) \in Whitespace THEN lstrip(Tail(s)) ELSE s

RECURSIVE rstrip(_)
rstrip(s) ==
    IF s # <<>> /\ s[Len(s)] \in Whitespace THEN rstrip(SubSeq(s, 1, Len(s) - 1)) ELSE s

strip(s) == rstrip(lstrip(s))

\* s[i..] starts with the literal lit
LitAt(s, i, lit) == /\ i + Len(lit) - 1 <= Len(s)
                    /\ SubSeq(s, i, i + Len(lit) - 1) = lit

\* re.match(r'^https?://', s): "http", then an optional "s", then "://"
re_match_scheme(s) ==
    /\ LitAt(s, 1, <<"h", "t", "t", "p">>)
    /\ \/ LitAt(s, 5, <<"s">>) /\ LitAt(s, 6, <<":", "/", "/">>)
       \/ LitAt(s, 5, <<":", "/", "/">>)

is_valid_url_NoStrip(u) == re_match_scheme(u)

is_valid_url(u) == re_match_scheme(strip(u))

(***************************************************************************)
(* render_html                                                             *)
(***************************************************************************)
DOCTYPE == "<!DOCTYPE html>"
doctype_lower == "<!doctype html>"
NL == "\n"
INDENT == "\n    "
HEAD == "<head>"
CHARSET == "<meta charset=\"UTF-8\">"
VIEWPORT == "<meta name=\"viewport\" content=\"width=device-width, initial-scale=1.0\">"
csp_meta == "<meta http-equiv=\"Content-Security-Policy\" content=\"default-src * 'unsafe-inline' 'unsafe-eval' data: blob:;\">"
viewport_text == "viewport"

\* chunks that begin with '<!DOCTYPE'
StartsDoctype == {DOCTYPE}
\* chunks in which the substring '<meta charset=' occurs
HasCharset == {CHARSET}
\* chunks in which the substring 'viewport' occurs
HasViewport == {VIEWPORT, viewport_text}
\* chunks in which the substring 'Content-Security-Policy' occurs
HasCSP == {csp_meta}

\* `sub in html` for a substring that lies within one chunk
In(html, chunks) == \E i \in 1..Len(html) : html[i] \in chunks

\* html.strip().startswith('<!DOCTYPE')
startswith_doctype(html) == strip(html) # <<>> /\ Head(strip(html)) \in StartsDoctype

\* html.replace(old, new): every occurrence of the chunk old
RECURSIVE replace(_, _, _)
replace(html, old, new) ==
    IF html = <<>> THEN <<>>
    ELSE (IF Head(html) = old THEN new ELSE <<Head(html)>>) \o replace(Tail(html), old, new)

render_html_Unguarded(html) ==
    LET h1 == IF ~startswith_doctype(html) THEN <<DOCTYPE, NL>> \o html ELSE html
        h2 == replace(h1, HEAD, <<HEAD, INDENT, CHARSET>>)
        h3 == IF ~In(h2, HasViewport) THEN replace(h2, HEAD, <<HEAD, INDENT, VIEWPORT>>) ELSE h2
        h4 == IF ~In(h3, HasCSP) THEN replace(h3, HEAD, <<HEAD, INDENT, csp_meta>>) ELSE h3
    IN  h4

render_html(html) ==
    LET h1 == IF ~startswith_doctype(html) THEN <<DOCTYPE, NL>> \o html ELSE html
        h2 == IF ~In(h1, HasCharset) THEN replace(h1, HEAD, <<HEAD, INDENT, CHARSET>>) ELSE h1
        h3 == IF ~In(h2, HasViewport) THEN replace(h2, HEAD, <<HEAD, INDENT, VIEWPORT>>) ELSE h2
        h4 == IF ~In(h3, HasCSP) THEN replace(h3, HEAD, <<HEAD, INDENT, csp_meta>>) ELSE h3
    IN  h4

(***************************************************************************)
(* Input sets                                                              *)
(***************************************************************************)
SeqsUpTo(S, n) == UNION {[1..k -> S] : k \in 0..n}

Pads == SeqsUpTo({" ", "\n"}, MaxPad)
Schemes == {<<>>, <<"h", "t", "t", "p">>, <<"h", "t", "t", "p", "s">>,
            <<"H", "T", "T", "P">>, <<"f", "t", "p">>, <<"h", "t", "t">>,
            <<"h", "t", "t", "p", "s", "s">>}
Separators == {<<>>, <<":", "/", "/">>, <<":", "/">>, <<"/", "/">>}
Rests == {<<>>, <<"x">>, <<"x", " ", "y">>}
UrlInputs == {a \o b \o c \o d \o e : a \in Pads, b \in Schemes, c \in Separators,
                                       d \in Rests, e \in Pads}

DocChunks == {DOCTYPE, doctype_lower, NL, HEAD, CHARSET, VIEWPORT, csp_meta,
              viewport_text, "<body>x</body>"}
HtmlInputs == SeqsUpTo(DocChunks, MaxDocLen)

(***************************************************************************)
(* The front-ends at rest (used by the specifications of pure functions)   *)
(***************************************************************************)
NoCmd == <<>>
NoResult == [k \in {} |-> TRUE]
NoException == [in |-> "none", type |-> "none"]

AppRest ==
    /\ pc = "idle" /\ url = <<>> /\ selected_standards = <<>>
    /\ keyboard_testing = FALSE /\ button = FALSE /\ msgs = {}
    /\ run_test = "unset" /\ test_url = <<>>
    /\ files = {} /\ out_file = 0
    /\ cmd = NoCmd /\ proc = "none" /\ elapsed = 0
    /\ outcome = "none" /\ result = NoResult
    /\ desktop_html = <<>> /\ mobile_html = <<>> /\ viewer = <<>>
    /\ exception = NoException /\ runs = 0

(***************************************************************************)
(* Specification of is_valid_url                                           *)
(***************************************************************************)
UrlInit == /\ app = "none" /\ AppRest
           /\ arg \in UrlInputs /\ ret = FALSE /\ passes = 0

CheckUrl == /\ passes = 0
            /\ ret' = is_valid_url(arg)
            /\ passes' = 1
            /\ UNCHANGED <<arg, appVars>>

UrlNext == CheckUrl

UrlSpec == UrlInit /\ [][UrlNext]_vars

(***************************************************************************)
(* Specification of render_html                                            *)
(***************************************************************************)
RenderInit == /\ app = "none" /\ AppRest
              /\ arg \in HtmlInputs /\ ret = arg /\ passes = 0

\* one more application of render_html to the current document
Render == /\ passes < 2
          /\ arg' = ret
          /\ ret' = render_html(ret)
          /\ passes' = passes + 1
          /\ UNCHANGED appVars

RenderNext == Render

RenderSpec == RenderInit /\ [][RenderNext]_vars

(***************************************************************************)
(* Properties of the pure functions                                        *)
(***************************************************************************)
HasPrefix(s, lit) == Len(s) >= Len(lit) /\ \A i \in 1..Len(lit) : s[i] = lit[i]

\* s without its leading and trailing whitespace, stated by positions
Trimmed(s) ==
    LET keep == {i \in 1..Len(s) : s[i] \notin Whitespace}
    IN  IF keep = {} THEN <<>>
        ELSE SubSeq(s, CHOOSE i \in keep : \A k \in keep : i <= k,
                       CHOOSE j \in keep : \A k \in keep : k <= j)

HttpPrefix == <<"h", "t", "t", "p", ":", "/", "/">>
HttpsPrefix == <<"h", "t", "t", "p", "s", ":", "/", "/">>

\* C9: is_valid_url(s) is true exactly when s, with leading and trailing
\* whitespace removed, begins with the case-sensitive prefix "http://" or
\* "https://"; nothing else about s matters.
C9_ValidIffPrefix ==
    passes = 1 =>
        (ret <=> (HasPrefix(Trimmed(arg), HttpPrefix) \/ HasPrefix(Trimmed(arg), HttpsPrefix)))

\* "  https://x  " has been checked and found valid
C9_Witness ==
    /\ passes = 1
    /\ arg = <<" ", " ", "h", "t", "t", "p", "s", ":", "/", "/", "x", " ", " ">>
    /\ ret = TRUE

\* C7: render_html is idempotent: a second application to its own output
\* returns that output unchanged.
C7_Idempotent == passes = 2 => ret = arg

\* a document into which the first pass inserted tags has been rendered twice
C7_Witness == /\ passes = 2
              /\ In(ret, {INDENT})
              /\ In(ret, HasCharset) /\ In(ret, HasViewport) /\ In(ret, HasCSP)

(***************************************************************************)
(* Inputs of the front-ends                                                *)
(***************************************************************************)
DefaultUrl == <<"h", "t", "t", "p", "s", ":", "/", "/", "h", "t", "t", "p", "b", "i", "n",
                ".", "o", "r", "g", "/", "h", "t", "m", "l">>
UiUrls == {<<>>, DefaultUrl,
           <<"f", "t", "p", ":", "/", "/", "x">>,
           <<"h", "t", "t", "p", ":", "/", "/", "x">>,
           <<" ", "h", "t", "t", "p", "s", ":", "/", "/", "x">>}

\* documents the auditor may leave in the output file
PlainDoc == <<"<html>", HEAD, "</head>", "<body>x</body>", "</html>">>
HeadlessDoc == <<"<html>", "<body>x</body>", "</html>">>
CompleteDoc == <<DOCTYPE, NL, "<html>", HEAD, CHARSET, VIEWPORT, csp_meta, "</head>",
                 "<body>x</body>", "</html>">>
AuditorDocs == {<<>>, PlainDoc, HeadlessDoc, CompleteDoc}

\* what the auditor may write on its error stream
Stderrs == {<<>>, <<"boom">>}

(***************************************************************************)
(* accessibility_tester.py: file mode                                      *)
(***************************************************************************)
FallbackDoc == <<"<html>", "<body>", "<h1>Error running test</h1>", "</body>", "</html>">>

\* lines 78-87
Selected(wcag2a, wcag2aa, best_practice, aria) ==
    (IF wcag2a THEN <<"WCAG 2.0A">> ELSE <<>>) \o
    (IF wcag2aa THEN <<"WCAG 2.0AA">> ELSE <<>>) \o
    (IF best_practice THEN <<"Best-practice">> ELSE <<>>) \o
    (IF aria THEN <<"Aria">> ELSE <<>>)

\* ",".join(standards_list)
RECURSIVE join(_)
join(l) == IF l = <<>> THEN <<>>
           ELSE IF Len(l) = 1 THEN l
           ELSE <<Head(l), ",">> \o join(Tail(l))

FileBranch_NoStandardsCheck(u, stds) ==
    IF u # <<>> /\ is_valid_url(u) THEN "ready" ELSE "no_audit"

\* lines 92-97: which branch of the script is shown for the widget values
FileBranch(u, stds) ==
    IF u # <<>> /\ is_valid_url(u)
    THEN (IF stds = <<>> THEN "need_standard" ELSE "ready")
    ELSE "no_audit"

\* lines 89-96: messages shown before the button
FileMsgs(u, stds) ==
    (IF u # <<>> /\ ~is_valid_url(u) THEN {"warning:valid_url"} ELSE {}) \cup
    (IF FileBranch(u, stds) = "need_standard" THEN {"info:select_standard"} ELSE {}) \cup
    (IF FileBranch(u, stds) = "ready" THEN {"info:selected_standards"} ELSE {})

FreeFiles(fs) == (1..MaxFiles) \ fs
\* tempfile.NamedTemporaryFile(delete=False): a name not in use
NewFile(fs) == CHOOSE f \in FreeFiles(fs) : \A g \in FreeFiles(fs) : f <= g

FileCmd(u, stds, dev, f, kb) ==
    <<"node", "a11y_audit.js", u, join(stds), dev, f, IF kb THEN "true" ELSE "false">>

\* run_node_axe lines 12-16: create the output file and start the auditor;
\* subprocess.run raises when the executable cannot be started
CallNodeAxe(dev, fs, spawn_ok) ==
    LET f == NewFile(fs) IN
    /\ files' = fs \cup {f}
    /\ elapsed' = 0
    /\ IF spawn_ok
       THEN /\ out_file' = f
            /\ cmd' = FileCmd(url, selected_standards, dev, f, keyboard_testing)
            /\ proc' = "running"
            /\ pc' = dev
            /\ outcome' = "none"
            /\ exception' = NoException
       ELSE /\ out_file' = 0
            /\ cmd' = NoCmd
            /\ proc' = "none"
            /\ pc' = "idle"
            /\ outcome' = "spawn_error"
            /\ exception' = [in |-> "run_node_axe", type |-> "FileNotFoundError"]

\* a render pass caused by a change of the widgets: the button is not pressed
FileEdit(u, wcag2a, wcag2aa, best_practice, aria, kb) ==
    /\ app = "file" /\ pc = "idle"
    /\ url' = u
    /\ selected_standards' = Selected(wcag2a, wcag2aa, best_practice, aria)
    /\ keyboard_testing' = kb
    /\ button' = FALSE
    /\ msgs' = FileMsgs(u, selected_standards')
    /\ viewer' = <<>> /\ desktop_html' = <<>> /\ mobile_html' = <<>>
    /\ exception' = NoException /\ outcome' = "none" /\ runs' = 0
    /\ UNCHANGED <<app, pc, run_test, test_url, files, out_file, cmd, proc, elapsed, result>>
    /\ UNCHANGED pureVars

\* a render pass caused by a press of "Run Accessibility Audit", which is
\* on screen only when the previous pass reached line 97
FileClick(spawn_ok) ==
    /\ app = "file" /\ pc = "idle"
    /\ "info:selected_standards" \in msgs
    /\ Cardinality(FreeFiles(files)) >= 2
    /\ button' = TRUE
    /\ msgs' = FileMsgs(url, selected_standards)
    /\ viewer' = <<>> /\ desktop_html' = <<>> /\ mobile_html' = <<>>
    /\ IF FileBranch(url, selected_standards) = "ready"
       THEN /\ runs' = 1
            /\ CallNodeAxe("desktop", files, spawn_ok)
       ELSE /\ runs' = 0
            /\ exception' = NoException /\ outcome' = "none"
            /\ UNCHANGED <<files, out_file, cmd, proc, elapsed, pc>>
    /\ UNCHANGED <<app, url, selected_standards, keyboard_testing, run_test, test_url, result>>
    /\ UNCHANGED pureVars

\* the auditor exits, subprocess.run returns and run_node_axe finishes
\* (lines 18-25); the script then goes on to the mobile call (line 107) or
\* to the tabs (lines 110-120).
\*   how = "exit_nonzero": st.error and the fallback document
\*   how = "exit0":        the output file is read and removed
\*   how = "unreadable":   exit code 0 but open()/read() of the file raises
FileAuditorExits(how, doc, spawn_ok) ==
    /\ app = "file" /\ pc \in {"desktop", "mobile"} /\ proc = "running"
    /\ LET html == IF how = "exit_nonzero" THEN FallbackDoc ELSE doc
           fs   == IF how = "exit0" THEN files \ {out_file} ELSE files
           shown == IF how = "exit_nonzero" THEN msgs \cup {"error:running_test"} ELSE msgs
       IN
       IF how = "unreadable"
       THEN /\ exception' = [in |-> "run_node_axe", type |-> "UnicodeDecodeError"]
            /\ outcome' = how
            /\ pc' = "idle" /\ proc' = "exited" /\ cmd' = NoCmd /\ out_file' = 0
            /\ UNCHANGED <<files, elapsed, msgs, desktop_html, mobile_html, viewer, runs>>
       ELSE IF pc = "desktop"
       THEN /\ desktop_html' = html
            /\ msgs' = shown
            /\ runs' = runs + 1
            /\ CallNodeAxe("mobile", fs, spawn_ok)
            /\ UNCHANGED <<mobile_html, viewer>>
       ELSE /\ mobile_html' = html
            /\ viewer' = <<render_html(desktop_html), render_html(html)>>
            /\ msgs' = shown \cup {"success:completed"}
            /\ files' = fs
            /\ outcome' = how
            /\ exception' = NoException
            /\ pc' = "idle" /\ proc' = "exited" /\ cmd' = NoCmd /\ out_file' = 0
            /\ UNCHANGED <<elapsed, desktop_html, runs>>
    /\ UNCHANGED <<app, url, selected_standards, keyboard_testing, button, run_test,
                   test_url, result>>
    /\ UNCHANGED pureVars

(***************************************************************************)
(* streamlit_a11y_app.py: JSON mode                                        *)
(***************************************************************************)
Timeout == 60

DivOpen == "<div style=\"padding: 20px; color: red;\">"
DivClose == "</div>"

\* lines 25-29
FailureResult(stderr) ==
    [success |-> FALSE,
     error |-> <<"Node.js script failed: ">> \o stderr,
     streamlitHtml |-> <<DivOpen, "Error: ">> \o stderr \o <<DivClose>>]

\* lines 32-36
TimeoutResult ==
    [success |-> FALSE,
     error |-> <<"Request timed out">>,
     streamlitHtml |-> <<DivOpen, "Request timed out", " after 60 seconds", DivClose>>]

\* lines 38-42, e being the text of the exception
ExceptionResult(e) ==
    [success |-> FALSE,
     error |-> e,
     streamlitHtml |-> <<DivOpen, "Error: ">> \o e \o <<DivClose>>]

SpawnErrorText == <<"[Errno 2] No such file or directory: 'node'">>
JsonErrorText == <<"Expecting value: line 1 column 1 (char 0)">>

\* values json.loads may return for what the auditor printed
EmptySummary == [totalIssues |-> 0, errors |-> 0, warnings |-> 0, notices |-> 0, issues |-> <<>>]
AnnotatedHtml == <<"<html>", "annotated page", "</html>">>
JsonPayloads ==
    {[success |-> TRUE, summary |-> EmptySummary, streamlitHtml |-> AnnotatedHtml],
     [success |-> TRUE, streamlitHtml |-> AnnotatedHtml],
     [success |-> TRUE, summary |-> EmptySummary],
     [success |-> FALSE, error |-> <<"boom">>],
     [success |-> FALSE, error |-> <<"boom">>,
      streamlitHtml |-> <<DivOpen, "boom", DivClose>>],
     [success |-> FALSE],
     [k \in {} |-> TRUE]}

JsonCmd(u) == <<"node", "./streamlit_a11y_checker.js", u>>

\* main lines 104-164 for the result r of run_accessibility_check; a missing
\* key raises KeyError and the script stops before line 164
ShowResult(r, shown) ==
    /\ result' = r
    /\ pc' = "idle" /\ cmd' = NoCmd
    /\ IF "success" \notin DOMAIN r
       THEN /\ exception' = [in |-> "main", type |-> "KeyError"]
            /\ msgs' = shown /\ viewer' = <<>> /\ run_test' = "True"
       ELSE IF r.success
       THEN IF "summary" \notin DOMAIN r \/ "streamlitHtml" \notin DOMAIN r
            THEN /\ exception' = [in |-> "main", type |-> "KeyError"]
                 /\ msgs' = shown /\ viewer' = <<>> /\ run_test' = "True"
            ELSE /\ exception' = NoException
                 /\ msgs' = shown /\ viewer' = <<r.streamlitHtml>> /\ run_test' = "False"
       ELSE IF "error" \notin DOMAIN r
            THEN /\ exception' = [in |-> "main", type |-> "KeyError"]
                 /\ msgs' = shown /\ viewer' = <<>> /\ run_test' = "True"
            ELSE /\ exception' = NoException
                 /\ msgs' = shown \cup {"error:failed_check"}
                 /\ viewer' = IF "streamlitHtml" \in DOMAIN r THEN <<r.streamlitHtml>> ELSE <<>>
                 /\ run_test' = "False"

\* main lines 87-102 for the widget values u (text input) and btn (button):
\* the flag is set, and when it is set the auditor is started
JsonMain(u, btn, spawn_ok) ==
    LET requested == btn /\ u # <<>>
        flag == IF requested THEN "True" ELSE run_test
        target == IF requested THEN u ELSE test_url
        shown == IF btn /\ u = <<>> THEN {"error:enter_url"} ELSE {}
    IN
    /\ url' = u /\ button' = btn
    /\ test_url' = target
    /\ elapsed' = 0
    /\ IF flag = "True"
       THEN /\ runs' = 1
            /\ IF spawn_ok
               THEN /\ cmd' = JsonCmd(target)
                    /\ proc' = "running" /\ pc' = "check"
                    /\ outcome' = "none"
                    /\ run_test' = "True"
                    /\ msgs' = shown /\ viewer' = <<>>
                    /\ exception' = NoException
                    /\ UNCHANGED result
               ELSE /\ proc' = "none"
                    /\ outcome' = "spawn_error"
                    /\ ShowResult(ExceptionResult(SpawnErrorText), shown)
       ELSE /\ runs' = 0
            /\ msgs' = shown \cup {"info:instructions"}
            /\ viewer' = <<>> /\ exception' = NoException /\ outcome' = "none"
            /\ UNCHANGED <<run_test, cmd, proc, pc, result>>
    /\ UNCHANGED <<app, selected_standards, keyboard_testing, files, out_file,
                   desktop_html, mobile_html>>
    /\ UNCHANGED pureVars

\* a render pass caused by a change of the text input
JsonEdit(u, spawn_ok) ==
    /\ app = "json" /\ pc = "idle"
    /\ JsonMain(u, FALSE, spawn_ok)

\* a render pass caused by a press of "Run Accessibility Check"
JsonClick(spawn_ok) ==
    /\ app = "json" /\ pc = "idle"
    /\ JsonMain(url, TRUE, spawn_ok)

\* time passes while subprocess.run(timeout=60) waits
JsonTick ==
    /\ app = "json" /\ pc = "check" /\ proc = "running"
    /\ elapsed < Timeout
    /\ elapsed' = elapsed + 1
    /\ UNCHANGED <<app, pc, url, selected_standards, keyboard_testing, button, msgs,
                   run_test, test_url, files, out_file, cmd, proc, outcome, result,
                   desktop_html, mobile_html, viewer, exception, runs>>
    /\ UNCHANGED pureVars

\* the budget is used up: subprocess.run kills the auditor and raises
\* TimeoutExpired, which line 31 catches
JsonTimeout ==
    /\ app = "json" /\ pc = "check" /\ proc = "running"
    /\ elapsed = Timeout
    /\ proc' = "killed"
    /\ outcome' = "timeout"
    /\ elapsed' = 0
    /\ ShowResult(TimeoutResult, msgs)
    /\ UNCHANGED <<app, url, selected_standards, keyboard_testing, button, test_url,
                   files, out_file, desktop_html, mobile_html, runs>>
    /\ UNCHANGED pureVars

\* the auditor exits within the budget and run_accessibility_check returns
\*   how = "exit_nonzero": lines 24-29 with the error stream stderr
\*   how = "exit0":        json.loads gives payload
\*   how = "unparseable":  exit code 0 but json.loads raises, caught at line 37
JsonAuditorExits(how, payload, stderr) ==
    /\ app = "json" /\ pc = "check" /\ proc = "running"
    /\ proc' = "exited"
    /\ outcome' = how
    /\ ShowResult(IF how = "exit_nonzero" THEN FailureResult(stderr)
                  ELSE IF how = "exit0" THEN payload
                  ELSE ExceptionResult(JsonErrorText), msgs)
    /\ elapsed' = 0
    /\ UNCHANGED <<app, url, selected_standards, keyboard_testing, button, test_url,
                   files, out_file, desktop_html, mobile_html, runs>>
    /\ UNCHANGED pureVars

(***************************************************************************)
(* The front-ends                                                          *)
(***************************************************************************)
\* the state after the first render pass with the widgets' default values
Init ==
    /\ app \in {"file", "json"}
    /\ pc = "idle"
    /\ url = IF app = "file" THEN DefaultUrl ELSE <<>>
    /\ selected_standards = <<>>
    /\ keyboard_testing = FALSE
    /\ button = FALSE
    /\ msgs = IF app = "file" THEN FileMsgs(DefaultUrl, <<>>) ELSE {"info:instructions"}
    /\ run_test = "unset" /\ test_url = <<>>
    /\ files = {} /\ out_file = 0
    /\ cmd = NoCmd /\ proc = "none" /\ elapsed = 0
    /\ outcome = "none" /\ result = NoResult
    /\ desktop_html = <<>> /\ mobile_html = <<>> /\ viewer = <<>>
    /\ exception = NoException /\ runs = 0
    /\ arg = <<>> /\ ret = <<>> /\ passes = 0

Next ==
    \/ \E u \in UiUrls, wcag2a, wcag2aa, best_practice, aria, kb \in BOOLEAN :
          FileEdit(u, wcag2a, wcag2aa, best_practice, aria, kb)
    \/ \E spawn_ok \in BOOLEAN : FileClick(spawn_ok)
    \/ \E how \in {"exit0", "exit_nonzero", "unreadable"}, doc \in AuditorDocs,
          spawn_ok \in BOOLEAN : FileAuditorExits(how, doc, spawn_ok)
    \/ \E u \in UiUrls, spawn_ok \in BOOLEAN : JsonEdit(u, spawn_ok)
    \/ \E spawn_ok \in BOOLEAN : JsonClick(spawn_ok)
    \/ JsonTick
    \/ JsonTimeout
    \/ \E how \in {"exit0", "exit_nonzero", "unparseable"}, payload \in JsonPayloads,
          stderr \in Stderrs : JsonAuditorExits(how, payload, stderr)

Spec == Init /\ [][Next]_vars

\* the clock advances and an expired wait is acted upon; nothing makes the
\* external auditor exit
FairSpec == Spec /\ WF_vars(JsonTick) /\ WF_vars(JsonTimeout)

(***************************************************************************)
(* Properties of the front-ends                                            *)
(***************************************************************************)
\* a occurs in b as a run of consecutive chunks
Infix(a, b) == \E i \in 0..(Len(b) - Len(a)) : SubSeq(b, i + 1, i + Len(a)) = a

\* C1: when a run_node_axe call has ended, on any exit path, the temporary
\* output file it created no longer exists: the only temporary file on disk
\* is that of a call still in progress.
C1_TempFileRemoved ==
    app = "file" => files \subseteq (IF proc = "running" THEN {out_file} ELSE {})

\* C2: no exception leaves run_node_axe or run_accessibility_check, whatever
\* the external process does.
C2_NeverRaises == exception.in \notin {"run_node_axe", "run_accessibility_check"}

\* C3: in JSON mode every result whose success flag is false carries a
\* non-empty streamlitHtml fragment in which the error string occurs.
C3_FailureHasHtml ==
    (app = "json" /\ "success" \in DOMAIN result /\ ~result.success) =>
        /\ "streamlitHtml" \in DOMAIN result
        /\ "error" \in DOMAIN result
        /\ result.streamlitHtml # <<>>
        /\ Infix(result.error, result.streamlitHtml)

\* C4: an audit invocation whose auditor is running eventually returns; when
\* the wait budget ran out the auditor has been killed and the result is the
\* timeout result, which differs from every non-zero-exit result.
C4_EventuallyReturns ==
    /\ (proc = "running") ~> (proc # "running")
    /\ [](outcome = "timeout" =>
             /\ proc = "killed"
             /\ result = TimeoutResult
             /\ \A e \in Stderrs : result # FailureResult(e))

\* C5: the auditor is never running for a URL that is_valid_url rejects.
C5_NoAuditOfInvalidUrl == proc = "running" => is_valid_url(cmd[3])

\* C6: in file mode run_node_axe is only ever called with a non-empty
\* standards list, for the desktop and the mobile profile, and a pass with a
\* valid URL and no standard selected shows the "select at least one
\* standard" message and runs no audit.
C6_StandardsNonEmpty ==
    app = "file" =>
        /\ runs > 0 => selected_standards # <<>>
        /\ proc = "running" =>
              /\ cmd[4] = join(selected_standards) /\ cmd[4] # <<>>
              /\ cmd[5] \in {"desktop", "mobile"}
        /\ (pc = "idle" /\ url # <<>> /\ is_valid_url(url) /\ selected_standards = <<>>) =>
              /\ "info:select_standard" \in msgs
              /\ runs = 0 /\ viewer = <<>>

\* an audit ran and left its mark, then the user cleared every standard
C6_Witness ==
    /\ app = "file" /\ pc = "idle"
    /\ url # <<>> /\ is_valid_url(url) /\ selected_standards = <<>>
    /\ "info:select_standard" \in msgs
    /\ proc = "exited"

\* C8: every document given to the viewer in file mode has a doctype, a
\* charset meta tag, a viewport meta tag and a CSP meta tag.
C8_ViewerDocsComplete ==
    app = "file" =>
        \A i \in 1..Len(viewer) :
            /\ startswith_doctype(viewer[i])
            /\ In(viewer[i], HasCharset)
            /\ In(viewer[i], {VIEWPORT})
            /\ In(viewer[i], HasCSP)

\* C10: in JSON mode a pass invokes the auditor only when the button was
\* pressed in that pass, a press with a non-empty URL gives exactly one
\* invocation, and run_test is false at the end of a pass that ran an audit.
C10_NoRetry ==
    app = "json" =>
        /\ runs > 0 => button
        /\ (pc = "idle" /\ button /\ url # <<>>) => runs = 1
        /\ (pc = "idle" /\ runs > 0) => run_test = "False"

====
